---- MODULE Spec2Model ----
(***************************************************************************)
(* A model of defcon.c: the definition registry (a singly linked list of  *)
(* struct defcon_def), the two ini callbacks that ingest definition files *)
(* and resolve the configuration file, the validation pass and the two    *)
(* generators, driven by main().                                          *)
(*                                                                         *)
(* Text is a sequence of one-character strings (<<"8","0">> is "80"); the  *)
(* literal pieces of a printf format are single elements of such a         *)
(* sequence.  The key handed to ini_callback_def is only ever compared     *)
(* with strcmp against literals and is kept as a TLA+ string.              *)
(* Pointers to struct defcon_def are indices into heap (allocation order); *)
(* NULL is 0.                                                              *)
(*                                                                         *)
(* ini_parse_file is inih's, which is not part of defcon.c.  It is modelled *)
(* by its contract: it reads the file line by line, calls the handler for  *)
(* every name = value line with the current section, remembers in `error`  *)
(* the number of the first line that is malformed or whose handler returned *)
(* 0, reads on, and returns `error`; it returns -2 at once if it cannot    *)
(* allocate its line buffer.                                               *)
(***************************************************************************)
EXTENDS Integers, Sequences, FiniteSets, TLC

\* ------------------------------------------------------------------ bounds
\* definition files on the command line (argc - optind)
MaxFiles == 2
\* lines the parser reads from one file
MaxLines == 2
\* struct defcon_def blocks safe_malloc hands out in one run
MaxDefs == 2
\* the same three for a whole run, which multiplies them by the later phases
RunFiles == 1
RunLines == 2
RunDefs == 2
\* lines the parser reads from the configuration file
MaxConfLines == 1
\* lines of the definition file in the PORT scenario
MaxPortLines == 3

\* ------------------------------------------------------- program constants
VALUE_TYPE_STRING == 0
VALUE_TYPE_INTEGER == 1
VALUE_TYPE_HEX_INTEGER == 2
VALUE_TYPE_UNSIGNED_INTEGER == 3
VALUE_TYPE_BOOLEAN == 4
\* sizeof of the char arrays of struct defcon_value and struct defcon_def
StringSize == 128
NameSize == 64
DescriptionSize == 256
DefineSize == 64

NULL == 0

\* --------------------------------------------------------------- the inputs
FOO == <<"F", "O", "O">>
PORT == <<"P", "O", "R", "T">>
Names == {FOO, PORT}

T_string == <<"s", "t", "r", "i", "n", "g">>
T_integer == <<"i", "n", "t", "e", "g", "e", "r">>
T_hex_integer == <<"h", "e", "x", "_", "i", "n", "t", "e", "g", "e", "r">>
T_unsigned_integer ==
    <<"u", "n", "s", "i", "g", "n", "e", "d", "_", "i", "n", "t", "e", "g", "e", "r">>
T_boolean == <<"b", "o", "o", "l", "e", "a", "n">>
T_true == <<"t", "r", "u", "e">>
T_float == <<"f", "l", "o", "a", "t">>

V_8080 == <<"8", "0", "8", "0">>
V_abc == <<"a", "b", "c">>
D_one == <<"o", "n", "e">>
D_two == <<"t", "w", "o">>

\* the values a definition file gives to each key
DefValues(key) ==
    CASE key = "description" -> {D_one, D_two}
      [] key = "define" -> {PORT}
      [] key = "type" -> {T_integer, T_float}
      [] key = "value" -> {V_8080, V_abc}
      [] key = "required" -> {T_true}
      [] OTHER -> {V_abc}
DefKeys == {"description", "define", "type", "value", "required", "colour"}
\* the keys of the definition files of a whole run, and of the PORT scenario
RunKeys == {"type", "define", "value", "required"}
PortKeys == {"type", "define", "required"}
ConfValues == {V_8080, V_abc}

\* -------------------------------------------------------------- C library
\* strncpy(dst, s, n) into a zeroed buffer: at most n characters
Strncpy(s, n) == IF Len(s) < n THEN s ELSE SubSeq(s, 1, n)

DecDigits == <<"0", "1", "2", "3", "4", "5", "6", "7", "8", "9">>
HexUpper == DecDigits \o <<"A", "B", "C", "D", "E", "F">>
HexLower == DecDigits \o <<"a", "b", "c", "d", "e", "f">>
Spaces == {" ", "\t", "\n"}

\* the value of character c as a digit of the base, -1 if it is none
DigitOf(c, base) ==
    IF \E k \in 1..base : HexUpper[k] = c \/ HexLower[k] = c
    THEN (CHOOSE k \in 1..base : HexUpper[k] = c \/ HexLower[k] = c) - 1
    ELSE -1

RECURSIVE SkipSpaces(_)
SkipSpaces(s) ==
    IF s # <<>> /\ Head(s) \in Spaces THEN SkipSpaces(Tail(s)) ELSE s

\* the digits at the front of s, accumulated onto acc: [n digits read, val]
RECURSIVE ScanDigits(_, _, _, _)
ScanDigits(s, base, acc, n) ==
    IF s # <<>> /\ DigitOf(Head(s), base) >= 0
    THEN ScanDigits(Tail(s), base, acc * base + DigitOf(Head(s), base), n + 1)
    ELSE [n |-> n, val |-> acc]

\* one %jd, %ju or %jx conversion of scanf: white space, a sign, for base 16 an
\* optional 0x, then digits; [ok, val]
ScanNumber(s0, base) ==
    LET s1 == SkipSpaces(s0)
        neg == s1 # <<>> /\ Head(s1) = "-"
        s2 == IF s1 # <<>> /\ Head(s1) \in {"-", "+"} THEN Tail(s1) ELSE s1
        s3 == IF base = 16 /\ Len(s2) >= 3 /\ s2[1] = "0" /\ s2[2] \in {"x", "X"}
                 /\ DigitOf(s2[3], 16) >= 0
              THEN Tail(Tail(s2)) ELSE s2
        d == ScanDigits(s3, base, 0, 0)
    IN  [ok |-> d.n > 0, val |-> IF neg THEN 0 - d.val ELSE d.val]

\* atoi(s)
Atoi(s) == ScanNumber(s, 10).val

\* the decimal or upper-case hexadecimal digits of n >= 0 (%ju, %jX)
RECURSIVE Digits(_, _)
Digits(n, base) ==
    IF n < base THEN <<HexUpper[n + 1]>>
    ELSE Digits(n \div base, base) \o <<HexUpper[(n % base) + 1]>>

\* %jd
SignedDigits(n) == IF n < 0 THEN <<"-">> \o Digits(0 - n, 10) ELSE Digits(n, 10)

\* ------------------------------------------------------------ value model
\* the union u of struct defcon_value: `as` names the member last written
\* ("zero" after memset), s, n, b are that member's content
ZeroUnion == [as |-> "zero", s |-> <<>>, n |-> 0, b |-> FALSE]
AsString(t) == [as |-> "string", s |-> t, n |-> 0, b |-> FALSE]
AsInteger(k) == [as |-> "integer", s |-> <<>>, n |-> k, b |-> FALSE]
AsUnsigned(k) == [as |-> "unsigned", s |-> <<>>, n |-> k, b |-> FALSE]
AsBoolean(x) == [as |-> "boolean", s |-> <<>>, n |-> 0, b |-> x]

\* the member of the union a type tag selects
MemberOf(type) ==
    CASE type = VALUE_TYPE_INTEGER -> "integer"
      [] type = VALUE_TYPE_HEX_INTEGER -> "unsigned"
      [] type = VALUE_TYPE_UNSIGNED_INTEGER -> "unsigned"
      [] type = VALUE_TYPE_BOOLEAN -> "boolean"
      [] OTHER -> "string"

parse_boolean(s) == Atoi(s) # 0 \/ s = T_true

parse_type(s) ==
    IF s = T_string THEN VALUE_TYPE_STRING
    ELSE IF s = T_integer THEN VALUE_TYPE_INTEGER
    ELSE IF s = T_hex_integer THEN VALUE_TYPE_HEX_INTEGER
    ELSE IF s = T_unsigned_integer THEN VALUE_TYPE_UNSIGNED_INTEGER
    ELSE IF s = T_boolean THEN VALUE_TYPE_BOOLEAN
    ELSE VALUE_TYPE_STRING

\* parse_value(s, v, &success): [v |-> the value afterwards, success]
parse_value(s, v) ==
    CASE v.type = VALUE_TYPE_INTEGER ->
           LET r == ScanNumber(s, 10)
           IN  [v |-> IF r.ok THEN [v EXCEPT !.u = AsInteger(r.val)] ELSE v,
                success |-> r.ok]
      [] v.type = VALUE_TYPE_HEX_INTEGER ->
           LET lit == Len(s) >= 2 /\ s[1] = "0" /\ s[2] = "x"
               r == IF lit THEN ScanNumber(SubSeq(s, 3, Len(s)), 16)
                    ELSE [ok |-> FALSE, val |-> 0]
           IN  [v |-> IF r.ok THEN [v EXCEPT !.u = AsUnsigned(r.val)] ELSE v,
                success |-> r.ok]
      [] v.type = VALUE_TYPE_UNSIGNED_INTEGER ->
           LET r == ScanNumber(s, 10)
           IN  [v |-> IF r.ok THEN [v EXCEPT !.u = AsUnsigned(r.val)] ELSE v,
                success |-> r.ok]
      [] v.type = VALUE_TYPE_BOOLEAN ->
           [v |-> [v EXCEPT !.u = AsBoolean(parse_boolean(s))], success |-> TRUE]
      [] OTHER ->
           [v |-> [v EXCEPT !.u = AsString(Strncpy(s, StringSize))],
            success |-> v.type = VALUE_TYPE_STRING]

\* what reading the union through a member other than the one written gives
GarbageTexts == {<<>>, <<"0">>, <<"?">>}

\* value_to_string(src, s, n) with n = sizeof(string); `garbage` is the text a
\* read through another member than the one written produces
value_to_string(src, garbage) ==
    LET u == src.u
        fits == u.as \in {"zero", MemberOf(src.type)}
        text == CASE src.type = VALUE_TYPE_STRING -> <<"\"">> \o u.s \o <<"\"">>
                  [] src.type = VALUE_TYPE_INTEGER -> SignedDigits(u.n)
                  [] src.type = VALUE_TYPE_HEX_INTEGER -> <<"0x">> \o Digits(u.n, 16)
                  [] src.type = VALUE_TYPE_UNSIGNED_INTEGER -> Digits(u.n, 10)
                  [] src.type = VALUE_TYPE_BOOLEAN -> IF u.b THEN <<"1">> ELSE <<"0">>
                  [] OTHER -> u.s
    IN  IF fits THEN Strncpy(text, StringSize - 1) ELSE garbage

\* ----------------------------------------------------------------- registry
\* a struct defcon_def after memset, strncpy of the name and the default type
NewDef(name) ==
    [name |-> Strncpy(name, NameSize), description |-> <<>>, define |-> <<>>,
     has_value |-> FALSE, value_required |-> FALSE,
     value |-> [type |-> VALUE_TYPE_STRING, u |-> ZeroUnion], next |-> NULL]

\* the loop shared by get_def and find_def: the first block of the list that
\* starts at p whose name is `name`, NULL if there is none
RECURSIVE ListFind(_, _, _)
ListFind(h, p, name) ==
    IF p = NULL THEN NULL
    ELSE IF h[p].name = name THEN p
    ELSE ListFind(h, h[p].next, name)

\* the blocks of the list that starts at p, in iteration order
RECURSIVE ListFrom(_, _)
ListFrom(h, p) == IF p = NULL THEN <<>> ELSE <<p>> \o ListFrom(h, h[p].next)

find_def(h, begin, name) == ListFind(h, begin, name)

\* get_def with the new block made the head of the list
get_def_linked(h, begin, name) ==
    LET p == ListFind(h, begin, name)
        h2 == Append(h, [NewDef(name) EXCEPT !.next = begin])
    IN  IF p # NULL THEN [heap |-> h, def_begin |-> begin, def |-> p]
        ELSE [heap |-> h2, def_begin |-> Len(h2), def |-> Len(h2)]

\* get_def(name): [heap, def_begin, def] afterwards
get_def(h, begin, name) ==
    LET p == ListFind(h, begin, name)
        h2 == Append(h, [NewDef(name) EXCEPT !.next = begin])
        def == Len(h2)
    IN  IF p # NULL THEN [heap |-> h, def_begin |-> begin, def |-> p]
        ELSE [heap |-> h2, def_begin |-> h2[def].next, def |-> def]

\* ------------------------------------------------------------------- state
VARIABLES
    pc,                          \* where main() is
    suppress_undefined_warnings, \* -s
    nfiles,                      \* argc - optind, the definition files given
    i,                           \* the definition file main() is at, 1..nfiles
    heap,                        \* every struct defcon_def allocated so far
    def_begin,                   \* head of the registry list
    lineno,                      \* ini_parse_file: lines read of the open file
    error,                       \* ini_parse_file: line of the first error, 0 if none
    ingested,                    \* the triples handed to ini_callback_def so far
    resolved,                    \* the pairs handed to init_callback_conf so far
    stderr,                      \* the messages written to stderr
    header,                      \* the file generate_c_header wrote
    makefile,                    \* the file generate_makefile wrote
    optseen,                     \* the options the second getopt loop has passed
    exit_code                    \* the exit status once pc = "exited"

vars == <<pc, suppress_undefined_warnings, nfiles, i, heap, def_begin, lineno, error,
          ingested, resolved, stderr, header, makefile, optseen, exit_code>>

NoFile == [written |-> FALSE, lines |-> <<>>]
input_filename == <<"defcon.conf">>

Init ==
    /\ pc = "start"
    /\ suppress_undefined_warnings = FALSE
    /\ nfiles = 0
    /\ i = 0
    /\ heap = <<>>
    /\ def_begin = NULL
    /\ lineno = 0
    /\ error = 0
    /\ ingested = <<>>
    /\ resolved = <<>>
    /\ stderr = <<>>
    /\ header = NoFile
    /\ makefile = NoFile
    /\ optseen = {}
    /\ exit_code = 0

\* ---------------------------------------------------------------- callbacks
\* ini_callback_def(data = NULL, section, name, value):
\* [heap, def_begin, ret, warn: the messages printed, nullfmt: NULL went to %s]
ini_callback_def(h, begin, section, name, value) ==
    LET g == get_def(h, begin, section)
        d == g.def
        hp == g.heap
        type == parse_type(value)
        pv == parse_value(value, hp[d].value)
        out(h2, ret, warn) ==
            [heap |-> h2, def_begin |-> g.def_begin, ret |-> ret, warn |-> warn,
             nullfmt |-> warn # <<>>]
    IN  CASE name = "description" ->
               out([hp EXCEPT ![d].description = Strncpy(value, DescriptionSize)], 1, <<>>)
          [] name = "define" ->
               out([hp EXCEPT ![d].define = Strncpy(value, DefineSize)], 1, <<>>)
          [] name = "type" ->
               out([hp EXCEPT ![d].value.type = type], 1,
                   IF type = 0
                   THEN <<<<"(null)", ":">> \o hp[d].name
                          \o <<":type: warning: unable to parse: ">> \o value>>
                   ELSE <<>>)
          [] name = "value" ->
               out([hp EXCEPT ![d].value = pv.v, ![d].has_value = pv.success], 1, <<>>)
          [] name = "required" ->
               out([hp EXCEPT ![d].value_required = parse_boolean(value)], 1, <<>>)
          [] OTHER ->
               out(hp, 0, <<<<"(null)", ":">> \o section
                            \o <<": warning: unknown key: ", name>>>>)

\* init_callback_conf that looks the key up with get_def
init_callback_conf_creating(h, begin, suppress, name, value) ==
    LET g == get_def(h, begin, name)
        pv == parse_value(value, g.heap[g.def].value)
        h2 == [g.heap EXCEPT ![g.def].value = pv.v, ![g.def].has_value = pv.success]
    IN  [heap |-> h2, ret |-> IF pv.success THEN 1 ELSE 0,
         warn |-> IF pv.success THEN <<>>
                  ELSE <<input_filename \o <<":">> \o name
                         \o <<": warning: unable to parse: ">> \o value>>]

\* init_callback_conf that warns of an undefined key only under -s
init_callback_conf_inverted(h, begin, suppress, name, value) ==
    [heap |-> h, ret |-> 0,
     warn |-> IF find_def(h, begin, name) = NULL /\ suppress
              THEN <<input_filename \o <<": warning: undefined key: ">> \o name>>
              ELSE <<>>]

\* init_callback_conf(data = input_filename, section, name, value):
\* [heap, ret, warn: the messages printed]
init_callback_conf(h, begin, suppress, name, value) ==
    LET def == find_def(h, begin, name)
        pv == parse_value(value, h[def].value)
        h2 == [h EXCEPT ![def].value = pv.v, ![def].has_value = pv.success]
    IN  IF def = NULL
        THEN [heap |-> h, ret |-> 0,
              warn |-> IF ~suppress
                       THEN <<input_filename \o <<": warning: undefined key: ">> \o name>>
                       ELSE <<>>]
        ELSE IF ~h2[def].has_value
        THEN [heap |-> h2, ret |-> 0,
              warn |-> <<input_filename \o <<":">> \o name
                         \o <<": warning: unable to parse: ">> \o value>>]
        ELSE [heap |-> h2, ret |-> 1, warn |-> <<>>]

\* --------------------------------------------------------------- generators
\* the loop of generate_c_header and generate_makefile over the blocks `list`:
\* [lines: the lines written, warn: the messages printed]
RECURSIVE generate_lines(_, _, _, _, _)
generate_lines(h, list, before, between, garbage) ==
    IF list = <<>> THEN [lines |-> <<>>, warn |-> <<>>]
    ELSE LET def == h[Head(list)]
             rest == generate_lines(h, Tail(list), before, between, garbage)
             string == value_to_string(def.value, garbage)
         IN  IF def.define = <<>>
             THEN [lines |-> rest.lines,
                   warn |-> <<def.name \o <<": warning: no definition string">>>>
                            \o rest.warn]
             ELSE [lines |-> <<<<before>> \o def.define \o <<between>> \o string
                               \o <<"\n">>>> \o rest.lines,
                   warn |-> rest.warn]

generate_c_header(h, begin, garbage) ==
    LET g == generate_lines(h, ListFrom(h, begin), "#define CONFIG_", " ", garbage)
    IN  [file |-> [written |-> TRUE,
                   lines |-> <<<<"#ifndef __CONFIG_H__\n">>, <<"#define __CONFIG_H__ 1\n">>>>
                             \o g.lines \o <<<<"#endif\n">>>>],
         warn |-> g.warn]

generate_makefile(h, begin, garbage) ==
    LET g == generate_lines(h, ListFrom(h, begin), "CONFIG_", " := ", garbage)
    IN  [file |-> [written |-> TRUE, lines |-> g.lines], warn |-> g.warn]

\* --------------------------------------------------------------------- main
\* die(msg)
die(msg) ==
    /\ stderr' = Append(stderr, <<"fatal: ">> \o msg)
    /\ pc' = "exited"
    /\ exit_code' = 1

\* -h, -v (return 0) or an unknown option (return 1) in the first getopt loop
Usage ==
    /\ pc = "start"
    /\ \E code \in {0, 1} :
         /\ stderr' = Append(stderr, <<"Usage">>)
         /\ pc' = "exited"
         /\ exit_code' = code
    /\ UNCHANGED <<suppress_undefined_warnings, nfiles, i, heap, def_begin, lineno,
                   error, ingested, resolved, header, makefile, optseen>>

\* the first getopt loop ends; optind >= argc is fatal
Start(maxfiles) ==
    /\ pc = "start"
    /\ \E s \in BOOLEAN, n \in 0..maxfiles :
         /\ suppress_undefined_warnings' = s
         /\ nfiles' = n
         /\ IF n = 0
            THEN die(<<"no definition files">>) /\ i' = i
            ELSE pc' = "defs" /\ i' = 1 /\ UNCHANGED <<stderr, exit_code>>
    /\ UNCHANGED <<heap, def_begin, lineno, error, ingested, resolved, header,
                   makefile, optseen>>

\* fopen(argv[i], "r") fails: warning, next file
DefOpenFails ==
    /\ pc = "defs" /\ i <= nfiles
    /\ stderr' = Append(stderr, <<"argv[i]", ": warning: ", "strerror">>)
    /\ i' = i + 1
    /\ UNCHANGED <<pc, suppress_undefined_warnings, nfiles, heap, def_begin, lineno,
                   error, ingested, resolved, header, makefile, optseen, exit_code>>

\* fopen(argv[i], "r") succeeds and ini_parse_file starts
DefOpen ==
    /\ pc = "defs" /\ i <= nfiles
    /\ pc' = "defparse"
    /\ lineno' = 0
    /\ error' = 0
    /\ UNCHANGED <<suppress_undefined_warnings, nfiles, i, heap, def_begin, ingested,
                   resolved, stderr, header, makefile, optseen, exit_code>>

\* ini_parse_file reads a name = value line of a section of `names` and calls
\* ini_callback_def; a zero return is the file's error if it is the first.
\* Where the callback hands its NULL data to %s the message is printed or the
\* process is killed.
DefLine(names, keys, maxlines, maxdefs) ==
    /\ pc = "defparse"
    /\ lineno < maxlines
    /\ Len(heap) < maxdefs
    /\ \E section \in names, name \in keys :
         \E value \in DefValues(name) :
           LET r == ini_callback_def(heap, def_begin, section, name, value)
           IN  /\ heap' = r.heap
               /\ def_begin' = r.def_begin
               /\ ingested' = Append(ingested, [file |-> i, section |-> section,
                                                name |-> name, value |-> value])
               /\ lineno' = lineno + 1
               /\ \E printed \in IF r.nullfmt THEN BOOLEAN ELSE {TRUE} :
                    IF printed
                    THEN /\ stderr' = stderr \o r.warn
                         /\ error' = IF r.ret = 0 /\ error = 0 THEN lineno + 1 ELSE error
                         /\ pc' = pc
                    ELSE /\ pc' = "killed"
                         /\ UNCHANGED <<stderr, error>>
    /\ UNCHANGED <<suppress_undefined_warnings, nfiles, i, resolved, header, makefile,
                   optseen, exit_code>>

\* ini_parse_file reads a line that is neither a section, a pair nor a comment
DefSyntaxError(maxlines) ==
    /\ pc = "defparse"
    /\ lineno < maxlines
    /\ lineno' = lineno + 1
    /\ error' = IF error = 0 THEN lineno + 1 ELSE error
    /\ UNCHANGED <<pc, suppress_undefined_warnings, nfiles, i, heap, def_begin,
                   ingested, resolved, stderr, header, makefile, optseen, exit_code>>

\* ini_parse_file returns error (>= 0) at the end of the file: fclose, next file
DefEof ==
    /\ pc = "defparse"
    /\ ~(error < 0)
    /\ pc' = "defs"
    /\ i' = i + 1
    /\ UNCHANGED <<suppress_undefined_warnings, nfiles, heap, def_begin, lineno, error,
                   ingested, resolved, stderr, header, makefile, optseen, exit_code>>

\* ini_parse_file cannot allocate its line buffer and returns -2: warning, next file
DefParseAbort ==
    /\ pc = "defparse"
    /\ lineno = 0
    /\ error' = -2
    /\ stderr' = Append(stderr, <<"argv[i]", ": warning: parse error">>)
    /\ pc' = "defs"
    /\ i' = i + 1
    /\ UNCHANGED <<suppress_undefined_warnings, nfiles, heap, def_begin, lineno,
                   ingested, resolved, header, makefile, optseen, exit_code>>

\* fopen(input_filename, "r") fails
ConfOpenFails ==
    /\ pc = "defs" /\ i > nfiles
    /\ die(<<"strerror">>)
    /\ UNCHANGED <<suppress_undefined_warnings, nfiles, i, heap, def_begin, lineno,
                   error, ingested, resolved, header, makefile, optseen>>

\* fopen(input_filename, "r") succeeds and ini_parse_file starts
ConfOpen ==
    /\ pc = "defs" /\ i > nfiles
    /\ pc' = "confparse"
    /\ lineno' = 0
    /\ error' = 0
    /\ UNCHANGED <<suppress_undefined_warnings, nfiles, i, heap, def_begin, ingested,
                   resolved, stderr, header, makefile, optseen, exit_code>>

\* ini_parse_file reads a name = value line and calls init_callback_conf
ConfLine(names) ==
    /\ pc = "confparse"
    /\ lineno < MaxConfLines
    /\ \E name \in names, value \in ConfValues :
         LET r == init_callback_conf(heap, def_begin, suppress_undefined_warnings,
                                     name, value)
         IN  /\ heap' = r.heap
             /\ resolved' = Append(resolved, [name |-> name, value |-> value])
             /\ stderr' = stderr \o r.warn
             /\ error' = IF r.ret = 0 /\ error = 0 THEN lineno + 1 ELSE error
    /\ lineno' = lineno + 1
    /\ UNCHANGED <<pc, suppress_undefined_warnings, nfiles, i, def_begin, ingested,
                   header, makefile, optseen, exit_code>>

\* ini_parse_file reads a line that is neither a section, a pair nor a comment
ConfSyntaxError ==
    /\ pc = "confparse"
    /\ lineno < MaxConfLines
    /\ lineno' = lineno + 1
    /\ error' = IF error = 0 THEN lineno + 1 ELSE error
    /\ UNCHANGED <<pc, suppress_undefined_warnings, nfiles, i, heap, def_begin,
                   ingested, resolved, stderr, header, makefile, optseen, exit_code>>

\* ini_parse_file returns error (>= 0) at the end of the file: fclose, validation next
ConfEof ==
    /\ pc = "confparse"
    /\ ~(error < 0)
    /\ pc' = "validate"
    /\ UNCHANGED <<suppress_undefined_warnings, nfiles, i, heap, def_begin, lineno,
                   error, ingested, resolved, stderr, header, makefile, optseen,
                   exit_code>>

\* ini_parse_file cannot allocate its line buffer and returns -2
ConfParseAbort ==
    /\ pc = "confparse"
    /\ lineno = 0
    /\ error' = -2
    /\ die(<<"parse error">>)
    /\ UNCHANGED <<suppress_undefined_warnings, nfiles, i, heap, def_begin, lineno,
                   ingested, resolved, header, makefile, optseen>>

\* the blocks of the registry that require a value and have none, in list order
Unresolved(h, begin) ==
    SelectSeq(ListFrom(h, begin), LAMBDA d : ~h[d].has_value /\ h[d].value_required)

\* the validation loop: die at the first required definition without a value
Validate ==
    /\ pc = "validate"
    /\ LET bad == Unresolved(heap, def_begin)
       IN  IF bad # <<>>
           THEN die(<<"key ">> \o heap[Head(bad)].name \o <<" requires a value!">>)
           ELSE pc' = "render" /\ UNCHANGED <<stderr, exit_code>>
    /\ UNCHANGED <<suppress_undefined_warnings, nfiles, i, heap, def_begin, lineno,
                   error, ingested, resolved, header, makefile, optseen>>

\* the second getopt loop meets -C: generate_c_header, whose fopen succeeds or
\* fails as `opens` allows
GenerateHeader(opens) ==
    /\ pc = "render"
    /\ "C" \notin optseen
    /\ optseen' = optseen \cup {"C"}
    /\ \E opened \in opens, garbage \in GarbageTexts :
         LET g == generate_c_header(heap, def_begin, garbage)
         IN  IF opened
             THEN header' = g.file /\ stderr' = stderr \o g.warn
             ELSE /\ header' = header
                  /\ stderr' = Append(stderr, <<"optarg", ": warning: unable to open file">>)
    /\ UNCHANGED <<pc, suppress_undefined_warnings, nfiles, i, heap, def_begin, lineno,
                   error, ingested, resolved, makefile, exit_code>>

\* the second getopt loop meets -M: generate_makefile, whose fopen succeeds or
\* fails as `opens` allows
GenerateMakefile(opens) ==
    /\ pc = "render"
    /\ "M" \notin optseen
    /\ optseen' = optseen \cup {"M"}
    /\ \E opened \in opens, garbage \in GarbageTexts :
         LET g == generate_makefile(heap, def_begin, garbage)
         IN  IF opened
             THEN makefile' = g.file /\ stderr' = stderr \o g.warn
             ELSE /\ makefile' = makefile
                  /\ stderr' = Append(stderr, <<"optarg", ": warning: unable to open file">>)
    /\ UNCHANGED <<pc, suppress_undefined_warnings, nfiles, i, heap, def_begin, lineno,
                   error, ingested, resolved, header, exit_code>>

\* the second getopt loop ends: return 0
Finish ==
    /\ pc = "render"
    /\ pc' = "exited"
    /\ exit_code' = 0
    /\ UNCHANGED <<suppress_undefined_warnings, nfiles, i, heap, def_begin, lineno,
                   error, ingested, resolved, stderr, header, makefile, optseen>>

Next ==
    \/ Usage
    \/ Start(RunFiles)
    \/ DefOpenFails
    \/ DefOpen
    \/ DefLine(Names, RunKeys, RunLines, RunDefs)
    \/ DefSyntaxError(RunLines)
    \/ DefEof
    \/ DefParseAbort
    \/ ConfOpenFails
    \/ ConfOpen
    \/ ConfLine(Names)
    \/ ConfSyntaxError
    \/ ConfEof
    \/ ConfParseAbort
    \/ Validate
    \/ GenerateHeader({TRUE})
    \/ GenerateMakefile({TRUE})
    \/ Finish

\* a whole run; its definition files use the keys of RunKeys and its output
\* files can be opened
Spec == Init /\ [][Next]_vars

\* definition ingestion alone, over every key of a definition file
NextIngest ==
    \/ Start(MaxFiles)
    \/ DefOpenFails
    \/ DefOpen
    \/ DefLine(Names, DefKeys, MaxLines, MaxDefs)
    \/ DefSyntaxError(MaxLines)
    \/ DefEof
    \/ DefParseAbort

SpecIngest == Init /\ [][NextIngest]_vars

\* a whole run over one definition file of at most MaxPortLines lines that
\* declares PORT
NextPort ==
    \/ Start(RunFiles)
    \/ DefOpenFails
    \/ DefOpen
    \/ DefLine({PORT}, PortKeys, MaxPortLines, MaxPortLines)
    \/ DefEof
    \/ DefParseAbort
    \/ ConfOpenFails
    \/ ConfOpen
    \/ ConfLine({PORT})
    \/ ConfSyntaxError
    \/ ConfEof
    \/ ConfParseAbort
    \/ Validate
    \/ GenerateHeader(BOOLEAN)
    \/ GenerateMakefile(BOOLEAN)
    \/ Finish

SpecPort == Init /\ [][NextPort]_vars

\* ------------------------------------------------------------------ claims
Last(q) == q[Len(q)]
Range(q) == {q[k] : k \in 1..Len(q)}

\* the registry: the blocks find_def, the validation loop and the generators see
Registry == ListFrom(heap, def_begin)
RegistryNamed(n) == {d \in Range(Registry) : heap[d].name = n}

\* main() is past the loop over the definition files
IngestionDone ==
    \/ pc = "defs" /\ i > nfiles
    \/ pc \in {"confparse", "validate", "render"}

\* the ingested triples that set `key` of section n
Setting(n, key) ==
    {k \in 1..Len(ingested) : ingested[k].section = n /\ ingested[k].name = key}

\* C1: after two definition files, given in this order, that both give section
\* FOO a description, with different values, the registry holds exactly one entry
\* named FOO and its description is the later file's value.
C1_LastWriterWins ==
    \A a, b \in Setting(FOO, "description") :
        ( /\ IngestionDone
          /\ ingested[a].file < ingested[b].file
          /\ ingested[a].value # ingested[b].value
          /\ \A c \in Setting(FOO, "description") : c <= b )
        => /\ Cardinality(RegistryNamed(FOO)) = 1
           /\ \A d \in RegistryNamed(FOO) : heap[d].description = ingested[b].value

\* C2: for every name that was passed to get_def, find_def returns an entry, a
\* further get_def of that name returns that same entry and allocates nothing,
\* and no two entries of the registry have the same name.
C2_GetOrCreate ==
    /\ \A k \in 1..Len(ingested) :
         LET n == ingested[k].section
             again == get_def(heap, def_begin, n)
         IN  /\ find_def(heap, def_begin, n) # NULL
             /\ again.def = find_def(heap, def_begin, n)
             /\ again.heap = heap
    /\ \A d, e \in Range(Registry) : heap[d].name = heap[e].name => d = e

\* a definition that requires a value and has none; no other block carries its name
RequiredWithoutValue(d) ==
    /\ heap[d].value_required
    /\ ~heap[d].has_value
    /\ \A e \in 1..Len(heap) : heap[e].name = heap[d].name => e = d

\* C3: when ingestion and resolution are over and some definition is required and
\* has no value, the process has exited with status 1 and no generator has run.
C3_RequiredAborts ==
    ( /\ pc \in {"render", "exited"}
      /\ \E d \in 1..Len(heap) : RequiredWithoutValue(d) )
    => /\ pc = "exited"
       /\ exit_code = 1
       /\ optseen = {}
       /\ ~header.written
       /\ ~makefile.written

\* the definition file [PORT] type=integer, define=PORT, required=true and the
\* configuration file PORT = 8080 have been read, and the run is over
PortScenario ==
    /\ ingested = << [file |-> 1, section |-> PORT, name |-> "type", value |-> T_integer],
                     [file |-> 1, section |-> PORT, name |-> "define", value |-> PORT],
                     [file |-> 1, section |-> PORT, name |-> "required", value |-> T_true] >>
    /\ resolved = << [name |-> PORT, value |-> V_8080] >>
    /\ lineno = 1
    /\ pc = "exited"

\* C4: the PORT scenario ends with exit code 0, PORT holding the integer 8080,
\* the line "#define CONFIG_PORT 8080" in the header and the line
\* "CONFIG_PORT := 8080" in the makefile.
C4_EndToEnd ==
    PortScenario =>
        /\ exit_code = 0
        /\ \E d \in RegistryNamed(PORT) :
             /\ heap[d].has_value
             /\ heap[d].value.type = VALUE_TYPE_INTEGER
             /\ heap[d].value.u = AsInteger(8080)
        /\ header.written =>
             \E k \in 1..Len(header.lines) :
                header.lines[k] = <<"#define CONFIG_">> \o PORT \o <<" ">> \o V_8080 \o <<"\n">>
        /\ makefile.written =>
             \E k \in 1..Len(makefile.lines) :
                makefile.lines[k] = <<"CONFIG_">> \o PORT \o <<" := ">> \o V_8080 \o <<"\n">>

\* this step handed a pair of the configuration file to init_callback_conf
ConfStep == resolved' # resolved

UndefinedKeyWarning(name) == input_filename \o <<": warning: undefined key: ">> \o name

\* C5: a configuration pair whose key no entry of the registry carries leaves
\* every allocated definition and the list as they were, and prints the
\* "undefined key" warning exactly when -s is not set.
C5_UndefinedKeyDropped ==
    [][ ( /\ ConfStep
          /\ find_def(heap, def_begin, Last(resolved').name) = NULL )
        => /\ heap' = heap
           /\ def_begin' = def_begin
           /\ stderr' = IF suppress_undefined_warnings THEN stderr
                        ELSE Append(stderr, UndefinedKeyWarning(Last(resolved').name)) ]_vars

\* C5 happens: with a definition allocated and no -s, a pair was dropped with its
\* warning
C5_Witness ==
    /\ pc = "confparse"
    /\ heap # <<>>
    /\ resolved # <<>>
    /\ ~suppress_undefined_warnings
    /\ find_def(heap, def_begin, Last(resolved).name) = NULL
    /\ stderr # <<>>
    /\ Last(stderr) = UndefinedKeyWarning(Last(resolved).name)

\* the type tag the definition files leave section n with: that of the last type
\* line of n, string if there is none
DeclaredType(n) ==
    IF Setting(n, "type") = {} THEN VALUE_TYPE_STRING
    ELSE LET k == CHOOSE x \in Setting(n, "type") : \A y \in Setting(n, "type") : y <= x
         IN  parse_type(ingested[k].value)

\* parse_value fails on this text under this type tag
FailsCoercion(text, type) == ~parse_value(text, [type |-> type, u |-> ZeroUnion]).success

\* C6: a configuration pair whose key a definition file declared and whose value
\* fails parse_value under the declared type leaves has_value of every definition
\* of that name as it was, and prints a warning.
C6_FailedCoercionKeepsHasValue ==
    [][ ( /\ ConfStep
          /\ Setting(Last(resolved').name, "type") # {}
          /\ FailsCoercion(Last(resolved').value, DeclaredType(Last(resolved').name)) )
        => /\ Len(heap') = Len(heap)
           /\ \A d \in 1..Len(heap) :
                heap[d].name = Last(resolved').name
                  => heap'[d].has_value = heap[d].has_value
           /\ Len(stderr') = Len(stderr) + 1 ]_vars

\* C7: once validation or a generator is reached, or the run ended with status 0
\* past the configuration file, the parser reported no failure for that file.
C7_ConfParseFailureFatal ==
    ( \/ pc \in {"validate", "render"}
      \/ pc = "exited" /\ exit_code = 0 /\ nfiles > 0 )
    => error = 0

\* the section names of the ingested triples, each once, in order of first reference
RECURSIVE FirstReferences(_, _)
FirstReferences(log, seen) ==
    IF log = <<>> THEN <<>>
    ELSE IF Head(log).section \in seen THEN FirstReferences(Tail(log), seen)
    ELSE <<Head(log).section>>
         \o FirstReferences(Tail(log), seen \cup {Head(log).section})

\* the define the definition files leave section n with: that of the last
\* define line of n, empty if there is none
DeclaredDefine(n) ==
    IF Setting(n, "define") = {} THEN <<>>
    ELSE LET k == CHOOSE x \in Setting(n, "define") : \A y \in Setting(n, "define") : y <= x
         IN  ingested[k].value

\* the defines a generator has to write, in order
ExpectedDefines ==
    LET all == [k \in 1..Len(FirstReferences(ingested, {})) |->
                   DeclaredDefine(FirstReferences(ingested, {})[k])]
    IN  SelectSeq(all, LAMBDA x : x # <<>>)

\* line is `before`, the define, and something after it
StartsWith(line, before, define) ==
    /\ Len(line) > 1 + Len(define)
    /\ SubSeq(line, 1, 1 + Len(define)) = <<before>> \o define

\* C8: each generator writes one line per definition with a define, in the order
\* in which the definition files first referenced the definitions.
C8_InsertionOrder ==
    /\ header.written =>
         /\ Len(header.lines) = 3 + Len(ExpectedDefines)
         /\ \A k \in 1..Len(ExpectedDefines) :
              StartsWith(header.lines[2 + k], "#define CONFIG_", ExpectedDefines[k])
    /\ makefile.written =>
         /\ Len(makefile.lines) = Len(ExpectedDefines)
         /\ \A k \in 1..Len(ExpectedDefines) :
              StartsWith(makefile.lines[k], "CONFIG_", ExpectedDefines[k])

\* what a definition file declares of a definition, and the block's place
Declaration(def) ==
    <<def.name, def.description, def.define, def.value_required, def.value.type, def.next>>

\* C9: a configuration pair allocates nothing, leaves the list head and every
\* definition's declaration as they were, and leaves every definition other
\* than the one find_def returns for the key wholly unchanged.
C9_DeclarationFixed ==
    [][ ConfStep
        => /\ Len(heap') = Len(heap)
           /\ def_begin' = def_begin
           /\ \A d \in 1..Len(heap) :
                /\ Declaration(heap'[d]) = Declaration(heap[d])
                /\ d # find_def(heap, def_begin, Last(resolved').name)
                     => heap'[d] = heap[d] ]_vars

\* C9 happens: a pair was resolved whose key is the name of a definition that
\* declares a type, and of one that declares a define
C9_Witness ==
    /\ pc = "confparse"
    /\ resolved # <<>>
    /\ \E d, e \in 1..Len(heap) :
         /\ heap[d].name = Last(resolved).name
         /\ heap[d].value.type = VALUE_TYPE_INTEGER
         /\ heap[e].name = Last(resolved).name
         /\ heap[e].define # <<>>

====
